---- MODULE Spec2Model ----
(***************************************************************************)
(* Model of moltx/tokenizers.py: the atom-level splitter                   *)
(* (SmilesAtomwiseTokenizer), the merge engine (SmilesTokenizer) and the   *)
(* vocabulary manager with its tag scanner (MoltxTokenizer).               *)
(*                                                                         *)
(* A Python str is a sequence of one-character strings, a token is such a  *)
(* sequence, a token list is a sequence of tokens.                         *)
(***************************************************************************)
EXTENDS Integers, Sequences, FiniteSets, TLC

\* ------------------------------------------------------------------------
\* Bounds
\* ------------------------------------------------------------------------
\* largest token_size given to the constructor
MaxCapacity == 7
\* longest token list handed to load / _update_tokens
MaxLoadLen == 2
\* longest identifier list handed to decode
MaxDecodeLen == 2

\* ------------------------------------------------------------------------
\* Generic helpers on sequences
\* ------------------------------------------------------------------------
Min(a, b) == IF a < b THEN a ELSE b

\* python: seq[a:b] with 0-based a, b (0 <= a), given here 1-based inclusive
Slice(seq, first, last) ==
    IF first > last THEN <<>> ELSE SubSeq(seq, first, Min(last, Len(seq)))

RECURSIVE Join(_)
\* python: ''.join(tokens)
Join(toks) == IF toks = <<>> THEN <<>> ELSE Head(toks) \o Join(Tail(toks))

\* ------------------------------------------------------------------------
\* SmilesAtomwiseTokenizer
\* ------------------------------------------------------------------------
Digits == {"0", "1", "2", "3", "4", "5", "6", "7", "8", "9"}

\* the one-character alternatives of REGEX: N|O|S|P|F|I|b|c|n|o|s|p|\(|\)|
\* \.|=|#|-|\+|\\|\/|:|~|@|\?|>|\*|\$
SingleSymbols ==
    {"N", "O", "S", "P", "F", "I", "b", "c", "n", "o", "s", "p",
     "(", ")", ".", "=", "#", "-", "+", "\\", "/", ":", "~", "@",
     "?", ">", "*", "$"}

RECURSIVE FirstClose(_, _)
\* position of the first "]" at or after position j, 0 when there is none
FirstClose(s, j) ==
    IF j > Len(s) THEN 0
    ELSE IF s[j] = "]" THEN j
    ELSE FirstClose(s, j + 1)

\* length of the match of REGEX that starts exactly at position i (1-based),
\* 0 when no alternative matches there; alternatives are tried in order
MatchLen(s, i) ==
    LET c == s[i]
        n == Len(s)
    IN  IF c = "["
        THEN \* \[[^\]]+]
             IF i + 1 <= n /\ s[i + 1] # "]" /\ FirstClose(s, i + 2) # 0
             THEN FirstClose(s, i + 2) - i + 1
             ELSE 0
        ELSE IF c = "B"
        THEN IF i + 1 <= n /\ s[i + 1] = "r" THEN 2 ELSE 1    \* Br?
        ELSE IF c = "C"
        THEN IF i + 1 <= n /\ s[i + 1] = "l" THEN 2 ELSE 1    \* Cl?
        ELSE IF c \in SingleSymbols
        THEN 1
        ELSE IF c = "%"
        THEN IF i + 2 <= n /\ s[i + 1] \in Digits /\ s[i + 2] \in Digits
             THEN 3 ELSE 0                                     \* \%[0-9]{2}
        ELSE IF c \in Digits
        THEN 1
        ELSE 0

RECURSIVE FindAll_KeepUnmatched(_, _)
\* FindAll over a pattern with a catch-all last alternative: a character no
\* alternative matches is a token of its own
FindAll_KeepUnmatched(s, i) ==
    IF i > Len(s) THEN <<>>
    ELSE IF MatchLen(s, i) = 0
    THEN <<SubSeq(s, i, i)>> \o FindAll_KeepUnmatched(s, i + 1)
    ELSE <<SubSeq(s, i, i + MatchLen(s, i) - 1)>>
             \o FindAll_KeepUnmatched(s, i + MatchLen(s, i))

RECURSIVE FindAll(_, _)
\* python: self._regex.findall(smiles), scanning from position i
FindAll(s, i) ==
    IF i > Len(s) THEN <<>>
    ELSE IF MatchLen(s, i) = 0 THEN FindAll(s, i + 1)
    ELSE <<SubSeq(s, i, i + MatchLen(s, i) - 1)>>
             \o FindAll(s, i + MatchLen(s, i))

unk == <<"<", "u", "n", "k", ">">>

\* SmilesAtomwiseTokenizer.__call__; exclusive = {} stands for None / empty
AtomwiseCall(s, exclusive) ==
    LET toks == FindAll(s, 1)
    IN  IF exclusive # {}
        THEN [k \in 1..Len(toks) |->
                 IF Head(toks[k]) = "[" /\ toks[k] \notin exclusive
                 THEN unk ELSE toks[k]]
        ELSE toks

\* ------------------------------------------------------------------------
\* SmilesTokenizer (merge engine)
\* ------------------------------------------------------------------------
\* Probabilities are in hundredths. random.random() is in [0, 1): the draws
\* below are the ones that fall on either side of a dropout strictly between
\* 0 and 1.
RandomDraws == {0, 99}

\* A dropout is 0 (plain BPE), 50 (strictly inside (0, 1)) or 101 (the
\* constructor default of MoltxTokenizer, 1.000000001, above every draw).

\* python: not self.dropout or random.random() > self.dropout
Accepted(dropout, draw) == dropout = 0 \/ draw > dropout

\* the draw vectors one pass over `toks` can see: one draw per adjacent pair
\* (no draw is made when dropout is 0)
DrawVectors(toks, dropout) ==
    IF dropout = 0 THEN {[i \in 1..(Len(toks) - 1) |-> 0]}
    ELSE [1..(Len(toks) - 1) -> RandomDraws]

\* the list `pairs` of one pass, as the set of <<rank, i, pair>>; i is the
\* 0-based position enumerate() gives
Pairs(toks, codes, dropout, draws) ==
    {<<codes[<<toks[i + 1], toks[i + 2]>>], i, <<toks[i + 1], toks[i + 2]>>>> :
        i \in {j \in 0..(Len(toks) - 2) :
                  /\ Accepted(dropout, draws[j + 1])
                  /\ <<toks[j + 1], toks[j + 2]>> \in DOMAIN codes}}

\* MinPair with the tuples compared by position alone: the leftmost
\* candidate wins whatever its rank
MinPair_Leftmost(pairs) ==
    CHOOSE p \in pairs : \A q \in pairs : p[2] <= q[2]

\* python: min(pairs): tuples compare by rank, then by position
MinPair(pairs) ==
    CHOOSE p \in pairs :
        \A q \in pairs : p[1] < q[1] \/ (p[1] = q[1] /\ p[2] <= q[2])

RECURSIVE MergeFrom_CursorShort(_, _, _, _, _)
\* MergeFrom with the cursor set to j + 1 after a merge: the second token of
\* the merged pair is emitted again
MergeFrom_CursorShort(toks, positions, merged, i, from) ==
    IF from > Len(toks) - 2
    THEN Slice(toks, i + 1, Len(toks))
    ELSE IF from \notin positions \/ from < i
    THEN MergeFrom_CursorShort(toks, positions, merged, i, from + 1)
    ELSE Slice(toks, i + 1, from) \o <<merged>>
             \o MergeFrom_CursorShort(toks, positions, merged, from + 1, from + 1)

RECURSIVE MergeFrom_NoOverlapTest(_, _, _, _, _)
\* MergeFrom without `if j < i: continue`: an occurrence that starts inside
\* the pair merged just before is merged too
MergeFrom_NoOverlapTest(toks, positions, merged, i, from) ==
    IF from > Len(toks) - 2
    THEN Slice(toks, i + 1, Len(toks))
    ELSE IF from \notin positions
    THEN MergeFrom_NoOverlapTest(toks, positions, merged, i, from + 1)
    ELSE Slice(toks, i + 1, from) \o <<merged>>
             \o MergeFrom_NoOverlapTest(toks, positions, merged, from + 2, from + 1)

RECURSIVE MergeFrom_SkipAtCursor(_, _, _, _, _)
\* MergeFrom with the overlap test written j <= i: an occurrence that starts
\* exactly at the cursor is skipped
MergeFrom_SkipAtCursor(toks, positions, merged, i, from) ==
    IF from > Len(toks) - 2
    THEN Slice(toks, i + 1, Len(toks))
    ELSE IF from \notin positions \/ from <= i
    THEN MergeFrom_SkipAtCursor(toks, positions, merged, i, from + 1)
    ELSE Slice(toks, i + 1, from) \o <<merged>>
             \o MergeFrom_SkipAtCursor(toks, positions, merged, from + 2, from + 1)

RECURSIVE MergeFrom_NoFinalExtend(_, _, _, _, _)
\* MergeFrom without new_tokens.extend(tokens[i:]): the tokens after the
\* last merge are lost
MergeFrom_NoFinalExtend(toks, positions, merged, i, from) ==
    IF from > Len(toks) - 2
    THEN <<>>
    ELSE IF from \notin positions \/ from < i
    THEN MergeFrom_NoFinalExtend(toks, positions, merged, i, from + 1)
    ELSE Slice(toks, i + 1, from) \o <<merged>>
             \o MergeFrom_NoFinalExtend(toks, positions, merged, from + 2, from + 1)

RECURSIVE MergeFrom(_, _, _, _, _)
\* the for loop over `positions` followed by the final extend: j runs over
\* the 0-based positions from `from` upward, i is the 0-based cursor
MergeFrom(toks, positions, merged, i, from) ==
    IF from > Len(toks) - 2
    THEN Slice(toks, i + 1, Len(toks))
    ELSE IF from \notin positions \/ from < i
    THEN MergeFrom(toks, positions, merged, i, from + 1)
    ELSE Slice(toks, i + 1, from) \o <<merged>>
             \o MergeFrom(toks, positions, merged, from + 2, from + 1)

\* one iteration of the while loop that found candidates
MergePass(toks, pairs) ==
    LET bigram == MinPair(pairs)[3]
        positions == {p[2] : p \in {q \in pairs : q[3] = bigram}}
    IN  MergeFrom(toks, positions, bigram[1] \o bigram[2], 0, 0)

RECURSIVE MergeLoop(_, _, _)
\* the while loop: the set of token lists it can end with, over all draws
MergeLoop(toks, codes, dropout) ==
    IF Len(toks) <= 1 THEN {toks}
    ELSE UNION {
        LET pairs == Pairs(toks, codes, dropout, draws)
        IN  IF pairs = {} THEN {toks}
            ELSE MergeLoop(MergePass(toks, pairs), codes, dropout)
        : draws \in DrawVectors(toks, dropout)}

\* SmilesTokenizer.__call__: the token lists a call can return
SmilesCall(s, codes, dropout, exclusive) ==
    IF Len(s) = 1 THEN {<<s>>}
    ELSE MergeLoop(AtomwiseCall(s, exclusive), codes, dropout)

\* ------------------------------------------------------------------------
\* MoltxTokenizer.encode (tag scanner)
\* ------------------------------------------------------------------------
Letters ==
    {"a", "b", "c", "d", "e", "f", "g", "h", "i", "j", "k", "l", "m", "n",
     "o", "p", "q", "r", "s", "t", "u", "v", "w", "x", "y", "z",
     "A", "B", "C", "D", "E", "F", "G", "H", "I", "J", "K", "L", "M", "N",
     "O", "P", "Q", "R", "S", "T", "U", "V", "W", "X", "Y", "Z"}

\* \w
WordChars == Letters \cup Digits \cup {"_"}

\* REGEX <\w{3}> matches at position i (1-based)
TagAt(s, i) ==
    /\ i + 4 <= Len(s)
    /\ s[i] = "<"
    /\ s[i + 1] \in WordChars /\ s[i + 2] \in WordChars /\ s[i + 3] \in WordChars
    /\ s[i + 4] = ">"

RECURSIVE TagSearch_PastCursor(_, _)
\* TagSearch that starts one character after the cursor
TagSearch_PastCursor(s, i) ==
    IF i + 1 > Len(s) THEN 0
    ELSE IF TagAt(s, i + 1) THEN i + 1
    ELSE TagSearch_PastCursor(s, i + 1)

RECURSIVE TagSearch(_, _)
\* python: self.REGEX.search(smiles, pos): 1-based start of the first match
\* at or after 1-based position i, 0 for None
TagSearch(s, i) ==
    IF i > Len(s) THEN 0
    ELSE IF TagAt(s, i) THEN i
    ELSE TagSearch(s, i + 1)

RECURSIVE EncodeFrom(_, _, _, _)
\* the while loop of encode and the tail after it; pos is the 0-based cursor
EncodeFrom(s, pos, codes, dropout) ==
    LET start == TagSearch(s, pos + 1) - 1    \* 0-based, -1 for None
    IN  IF start < 0
        THEN IF Len(s) > pos
             THEN SmilesCall(Slice(s, pos + 1, Len(s)), codes, dropout, {})
             ELSE {<<>>}
        ELSE LET gaps == IF start > pos
                         THEN SmilesCall(Slice(s, pos + 1, start), codes, dropout, {})
                         ELSE {<<>>}
                 tag == SubSeq(s, start + 1, start + 5)
             IN  {g \o <<tag>> \o rest :
                     g \in gaps, rest \in EncodeFrom(s, start + 5, codes, dropout)}

\* MoltxTokenizer.encode: the token lists a call can return
Encode(s, codes, dropout) == EncodeFrom(s, 0, codes, dropout)

\* ------------------------------------------------------------------------
\* MoltxTokenizer (vocabulary manager): pure parts
\* ------------------------------------------------------------------------
pad == <<"<", "p", "a", "d", ">">>
bos == <<"<", "b", "o", "s", ">">>
eos == <<"<", "e", "o", "s", ">">>
sep == <<"<", "s", "e", "p", ">">>
cls == <<"<", "c", "l", "s", ">">>

reserved == <<pad, unk, bos, eos, sep, cls>>

\* an item of a persisted token list that is a JSON array: unhashable, so
\* `token not in self._token_idx` raises TypeError on it
JsonList == <<"[...]">>

Hashable(item) == item # JsonList

RECURSIVE UpdateLoop_OffByOne(_, _, _, _)
\* UpdateLoop with the capacity test written l > size
UpdateLoop_OffByOne(toks, idx, size, items) ==
    IF items = <<>>
    THEN [tokens |-> toks, token_idx |-> idx, err |-> "none"]
    ELSE LET token == Head(items)
         IN  IF ~Hashable(token)
             THEN [tokens |-> toks, token_idx |-> idx, err |-> "TypeError"]
             ELSE IF token \notin DOMAIN idx
             THEN IF Len(toks) > size
                  THEN [tokens |-> toks, token_idx |-> idx, err |-> "none"]
                  ELSE UpdateLoop_OffByOne(Append(toks, token),
                                           idx @@ (token :> Len(toks)),
                                           size, Tail(items))
             ELSE UpdateLoop_OffByOne(toks, idx, size, Tail(items))

RECURSIVE UpdateLoop_NoMembershipTest(_, _, _, _)
\* UpdateLoop without `if token not in self._token_idx`: a token seen
\* again is appended again and its identifier overwritten
UpdateLoop_NoMembershipTest(toks, idx, size, items) ==
    IF items = <<>>
    THEN [tokens |-> toks, token_idx |-> idx, err |-> "none"]
    ELSE LET token == Head(items)
         IN  IF ~Hashable(token)
             THEN [tokens |-> toks, token_idx |-> idx, err |-> "TypeError"]
             ELSE IF Len(toks) >= size
             THEN [tokens |-> toks, token_idx |-> idx, err |-> "none"]
             ELSE UpdateLoop_NoMembershipTest(
                      Append(toks, token),
                      (token :> Len(toks)) @@ idx,
                      size, Tail(items))

RECURSIVE UpdateLoop_IdAfterAppend(_, _, _, _)
\* UpdateLoop with the identifier read after the append: every new token is
\* given the length of the list that already holds it
UpdateLoop_IdAfterAppend(toks, idx, size, items) ==
    IF items = <<>>
    THEN [tokens |-> toks, token_idx |-> idx, err |-> "none"]
    ELSE LET token == Head(items)
         IN  IF ~Hashable(token)
             THEN [tokens |-> toks, token_idx |-> idx, err |-> "TypeError"]
             ELSE IF token \notin DOMAIN idx
             THEN IF Len(toks) >= size
                  THEN [tokens |-> toks, token_idx |-> idx, err |-> "none"]
                  ELSE UpdateLoop_IdAfterAppend(Append(toks, token),
                                                idx @@ (token :> Len(toks) + 1),
                                                size, Tail(items))
             ELSE UpdateLoop_IdAfterAppend(toks, idx, size, Tail(items))

RECURSIVE UpdateLoop(_, _, _, _)
\* the for loop of _update_tokens; the result is the object's fields after
\* it and the exception that ended it, if any
UpdateLoop(toks, idx, size, items) ==
    IF items = <<>>
    THEN [tokens |-> toks, token_idx |-> idx, err |-> "none"]
    ELSE LET token == Head(items)
         IN  IF ~Hashable(token)
             THEN [tokens |-> toks, token_idx |-> idx, err |-> "TypeError"]
             ELSE IF token \notin DOMAIN idx
             THEN IF Len(toks) >= size
                  THEN [tokens |-> toks, token_idx |-> idx, err |-> "none"]
                  ELSE UpdateLoop(Append(toks, token),
                                  idx @@ (token :> Len(toks)),
                                  size, Tail(items))
             ELSE UpdateLoop(toks, idx, size, Tail(items))

\* MoltxTokenizer._update_tokens
UpdateTokens(toks, idx, size, frz, items) ==
    IF frz
    THEN [tokens |-> toks, token_idx |-> idx, err |-> "none"]
    ELSE UpdateLoop(toks, idx, size, items)

\* _load_tokens without the suspension of the freeze
LoadTokens_NoSuspend(toks, idx, size, frz, items) ==
    LET r == UpdateTokens(toks, idx, size, frz, items)
    IN  [tokens |-> r.tokens, token_idx |-> r.token_idx, err |-> r.err,
         freeze |-> frz]

\* MoltxTokenizer._load_tokens: the flag is cleared, the tokens registered,
\* and the flag put back by the statement after the registration, which an
\* exception skips
LoadTokens(toks, idx, size, frz, items) ==
    LET r == UpdateTokens(toks, idx, size, FALSE, items)
    IN  [tokens |-> r.tokens, token_idx |-> r.token_idx, err |-> r.err,
         freeze |-> IF r.err = "none" THEN frz ELSE FALSE]

\* python: self._tokens[item] for an int: negative indices count from the end
ListIndex(toks, item) ==
    IF 0 <= item /\ item < Len(toks)
    THEN [err |-> "none", val |-> toks[item + 1]]
    ELSE IF -Len(toks) <= item /\ item < 0
    THEN [err |-> "none", val |-> toks[Len(toks) + item + 1]]
    ELSE [err |-> "IndexError", val |-> <<>>]

\* python: self._token_idx.get(item, self._token_idx[self.unk]); the default
\* is evaluated before the lookup
IdOf(idx, item) ==
    IF unk \notin DOMAIN idx
    THEN [err |-> "KeyError", val |-> -1]
    ELSE [err |-> "none", val |-> IF item \in DOMAIN idx THEN idx[item] ELSE idx[unk]]

\* MoltxTokenizer.decode
DecodeIds(toks, ids) ==
    IF \E k \in 1..Len(ids) : ListIndex(toks, ids[k]).err # "none"
    THEN [err |-> "IndexError", val |-> <<>>]
    ELSE [err |-> "none",
          val |-> Join([k \in 1..Len(ids) |-> ListIndex(toks, ids[k]).val])]

\* ------------------------------------------------------------------------
\* Inputs
\* ------------------------------------------------------------------------
NumReserved == Len(reserved)

\* the merge table of the instance: `C C` is the first line of the codes
\* file (rank 0), `CC C` the second
SpeCodes == (<< <<"C">>, <<"C">> >> :> 0) @@ (<< <<"C", "C">>, <<"C">> >> :> 1)

\* constructor settings of the merge engine: the default (no codes file,
\* dropout 1.000000001) and a codes file with dropout 0 and 0.5
SmilesConfigs ==
    {[bpe_codes |-> <<>>, dropout |-> 101],
     [bpe_codes |-> SpeCodes, dropout |-> 0],
     [bpe_codes |-> SpeCodes, dropout |-> 50]}

\* input texts: the empty text, one atom, one character outside the grammar
\* ("x", a gap of length 1), two atoms the table merges, an atom next to a
\* character outside the grammar, a control tag before a gap, and a control
\* tag between two gaps
Texts ==
    {<<>>,
     <<"C">>,
     <<"x">>,
     <<"C", "C">>,
     <<"C", "x">>,
     unk \o <<"C">>,
     <<"C">> \o unk \o <<"x">>}

\* token lists handed to _update_tokens directly
TokenLists == UNION {[1..n -> {unk, <<"C">>}] : n \in 0..MaxLoadLen}

\* persisted forms handed to loads: text that is not JSON or has no 'tokens'
\* field (ok = FALSE), the dump of a fresh instance, and short token lists
\* that may hold a malformed item
Payloads ==
    {[ok |-> FALSE, tokens |-> <<>>], [ok |-> TRUE, tokens |-> reserved]}
    \cup {[ok |-> TRUE, tokens |-> l] :
            l \in UNION {[1..n -> {unk, JsonList}] : n \in 0..MaxLoadLen}}

\* identifiers handed to __getitem__ and decode: below the range, the last
\* one counted from the end, pad, unk, the first data token, past the end
IdValues == {-MaxCapacity - 1, -1, 0, 1, NumReserved, MaxCapacity}

IdLists == UNION {[1..n -> {-1, 0, MaxCapacity}] : n \in 0..MaxDecodeLen}

\* tokens handed to __getitem__
TokenValues == {pad, unk, <<"C">>, <<"x">>}

\* ------------------------------------------------------------------------
\* State
\* ------------------------------------------------------------------------
VARIABLES
    tokens,       \* self._tokens
    token_idx,    \* self._token_idx
    token_size,   \* self._token_size
    freeze,       \* self._freeze
    dropout,      \* self._smi_tkz.dropout
    bpe_codes,    \* self._smi_tkz.bpe_codes
    op,           \* the public operation that ran last
    arg,          \* its argument
    ret,          \* what it returned
    err,          \* the exception it raised, "none" if it returned
    old,          \* tokens, token_idx and freeze when it was called
    smi,          \* the frame of a running SmilesTokenizer.__call__
    enc,          \* the frame of a running MoltxTokenizer.encode
    thr           \* the concurrent callers of __call__, one frame each

vars == <<tokens, token_idx, token_size, freeze, dropout, bpe_codes,
          op, arg, ret, err, old, smi, enc, thr>>

\* the frames of the calls that are followed step by step
frames == <<smi, enc, thr>>

\* no call is being followed step by step
NoFrames == smi = <<>> /\ enc = <<>> /\ thr = <<>>

Snapshot == [tokens |-> tokens, token_idx |-> token_idx, freeze |-> freeze]

\* MoltxTokenizer.__init__
Init ==
    \E size \in 0..MaxCapacity, frz \in BOOLEAN, cfg \in SmilesConfigs :
        LET r == UpdateTokens(<<>>, <<>>, size, frz, reserved)
        IN  /\ tokens = r.tokens
            /\ token_idx = r.token_idx
            /\ token_size = size
            /\ freeze = frz
            /\ dropout = cfg.dropout
            /\ bpe_codes = cfg.bpe_codes
            /\ op = "init"
            /\ arg = <<>>
            /\ ret = <<>>
            /\ err = "none"
            /\ old = [tokens |-> <<>>, token_idx |-> <<>>, freeze |-> frz]
            /\ NoFrames

\* MoltxTokenizer.__call__
Call(smiles, tokens_only) ==
    \E toks \in Encode(smiles, bpe_codes, dropout) :
        LET r == UpdateTokens(tokens, token_idx, token_size, freeze, toks)
        IN  /\ tokens' = r.tokens
            /\ token_idx' = r.token_idx
            /\ op' = "call"
            /\ arg' = [smiles |-> smiles, tokens_only |-> tokens_only,
                       tokens |-> toks]
            /\ IF tokens_only
               THEN ret' = toks /\ err' = "none"
               ELSE IF unk \notin DOMAIN r.token_idx
               THEN ret' = <<>> /\ err' = "KeyError"
               ELSE /\ ret' = [k \in 1..Len(toks) |-> IdOf(r.token_idx, toks[k]).val]
                    /\ err' = "none"
            /\ old' = Snapshot
            /\ UNCHANGED <<token_size, freeze, dropout, bpe_codes>>
            /\ UNCHANGED frames

\* MoltxTokenizer._update_tokens called on its own
Update(items) ==
    LET r == UpdateTokens(tokens, token_idx, token_size, freeze, items)
    IN  /\ tokens' = r.tokens
        /\ token_idx' = r.token_idx
        /\ op' = "update"
        /\ arg' = items
        /\ ret' = <<>>
        /\ err' = r.err
        /\ old' = Snapshot
        /\ UNCHANGED <<token_size, freeze, dropout, bpe_codes>>
        /\ UNCHANGED frames

\* MoltxTokenizer.loads (and load, which reads the text from a file)
Loads(payload) ==
    /\ op' = "load"
    /\ arg' = payload
    /\ ret' = <<>>
    /\ old' = Snapshot
    /\ IF ~payload.ok
       THEN /\ err' = "ValueError"
            /\ UNCHANGED <<tokens, token_idx, freeze>>
       ELSE LET r == LoadTokens(tokens, token_idx, token_size, freeze,
                                payload.tokens)
            IN  /\ tokens' = r.tokens
                /\ token_idx' = r.token_idx
                /\ freeze' = r.freeze
                /\ err' = r.err
    /\ UNCHANGED <<token_size, dropout, bpe_codes>>
    /\ UNCHANGED frames

\* MoltxTokenizer.__getitem__ with an int
GetItemInt(item) ==
    /\ op' = "tokenOf"
    /\ arg' = item
    /\ ret' = ListIndex(tokens, item).val
    /\ err' = ListIndex(tokens, item).err
    /\ old' = Snapshot
    /\ UNCHANGED <<tokens, token_idx, token_size, freeze, dropout, bpe_codes>>
    /\ UNCHANGED frames

\* MoltxTokenizer.__getitem__ with a str
GetItemStr(item) ==
    /\ op' = "idOf"
    /\ arg' = item
    /\ ret' = IdOf(token_idx, item).val
    /\ err' = IdOf(token_idx, item).err
    /\ old' = Snapshot
    /\ UNCHANGED <<tokens, token_idx, token_size, freeze, dropout, bpe_codes>>
    /\ UNCHANGED frames

\* MoltxTokenizer.decode
Decode(token_idxs) ==
    /\ op' = "decode"
    /\ arg' = token_idxs
    /\ ret' = DecodeIds(tokens, token_idxs).val
    /\ err' = DecodeIds(tokens, token_idxs).err
    /\ old' = Snapshot
    /\ UNCHANGED <<tokens, token_idx, token_size, freeze, dropout, bpe_codes>>
    /\ UNCHANGED frames

Next ==
    \/ \E smiles \in Texts, tokens_only \in BOOLEAN : Call(smiles, tokens_only)
    \/ \E items \in TokenLists : Update(items)
    \/ \E payload \in Payloads : Loads(payload)
    \/ \E item \in IdValues : GetItemInt(item)
    \/ \E item \in TokenValues : GetItemStr(item)
    \/ \E token_idxs \in IdLists : Decode(token_idxs)

Spec == Init /\ [][Next]_vars

\* ------------------------------------------------------------------------
\* SmilesTokenizer.__call__ followed pass by pass
\* ------------------------------------------------------------------------
\* longest text handed to the merge engine
MaxSmilesLen == 5

\* a merge table whose first line comes later in the text than its second:
\* `C Cl` (rank 0), `C C` (rank 1), `CC CCl` (rank 2)
OrderCodes ==
    (<< <<"C">>, <<"C", "l">> >> :> 0)
        @@ (<< <<"C">>, <<"C">> >> :> 1)
        @@ (<< <<"C", "C">>, <<"C", "C", "l">> >> :> 2)

\* constructor settings of a merge engine: no codes file or one of the two
\* tables, with dropout 0, 0.5 and 1.000000001
EngineConfigs ==
    {[bpe_codes |-> c, dropout |-> d] :
        c \in {<<>>, SpeCodes, OrderCodes}, d \in {0, 50, 101}}

\* texts handed to the engine: "C" and "Cl" are atoms, a lone "l" and "x"
\* are outside the grammar
SmilesInputs == UNION {[1..n -> {"C", "l", "x"}] : n \in 0..MaxSmilesLen}

\* python: len(smiles) == 1
Bypass_Never(s) == FALSE

Bypass(s) == Len(s) = 1

\* python: len(tokens) > 1, with the 1 written 2
LoopContinues_AboveTwo(toks) == Len(toks) > 2

\* python: len(tokens) > 1, the condition of the while loop
LoopContinues(toks) == Len(toks) > 1

\* the frame of a call that has not started: no token list yet, the splitter
\* not invoked, no pass made
SmiFrame(s) ==
    [pc |-> "call", smiles |-> s, split |-> FALSE, atoms |-> <<>>,
     tokens |-> <<>>, passed |-> FALSE, prev |-> <<>>, draws |-> <<>>,
     bigram |-> <<>>]

\* a merge engine is constructed and handed one text; no vocabulary manager
\* exists
InitBPE ==
    \E cfg \in EngineConfigs, s \in SmilesInputs :
        /\ dropout = cfg.dropout
        /\ bpe_codes = cfg.bpe_codes
        /\ smi = SmiFrame(s)
        /\ enc = <<>>
        /\ thr = <<>>
        /\ tokens = <<>>
        /\ token_idx = <<>>
        /\ token_size = 0
        /\ freeze = FALSE
        /\ op = "init"
        /\ arg = <<>>
        /\ ret = <<>>
        /\ err = "none"
        /\ old = [tokens |-> <<>>, token_idx |-> <<>>, freeze |-> FALSE]

\* everything but the frame of the engine's call
notSmi == <<tokens, token_idx, token_size, freeze, dropout, bpe_codes,
            op, arg, ret, err, old, enc, thr>>

\* the entry of __call__: the bypass for a text of one character, else the
\* call of the splitter (exclusive_tokens is None)
SmiEnter ==
    /\ smi.pc = "call"
    /\ IF Bypass(smi.smiles)
       THEN smi' = [smi EXCEPT !.pc = "done", !.tokens = <<smi.smiles>>]
       ELSE smi' = [smi EXCEPT !.pc = "loop", !.split = TRUE,
                               !.atoms = AtomwiseCall(smi.smiles, {}),
                               !.tokens = AtomwiseCall(smi.smiles, {})]
    /\ UNCHANGED notSmi

\* one iteration of the while loop that finds candidates and merges
SmiMerge ==
    /\ smi.pc = "loop"
    /\ LoopContinues(smi.tokens)
    /\ \E draws \in DrawVectors(smi.tokens, dropout) :
           LET pairs == Pairs(smi.tokens, bpe_codes, dropout, draws)
           IN  /\ pairs # {}
               /\ smi' = [smi EXCEPT !.tokens = MergePass(smi.tokens, pairs),
                                       !.passed = TRUE,
                                       !.prev = smi.tokens,
                                       !.draws = draws,
                                       !.bigram = MinPair(pairs)[3]]
    /\ UNCHANGED notSmi

\* the iteration of the while loop that finds no candidate: break, return
SmiBreak ==
    /\ smi.pc = "loop"
    /\ LoopContinues(smi.tokens)
    /\ \E draws \in DrawVectors(smi.tokens, dropout) :
           Pairs(smi.tokens, bpe_codes, dropout, draws) = {}
    /\ smi' = [smi EXCEPT !.pc = "done"]
    /\ UNCHANGED notSmi

\* the while condition is false: return tokens
SmiExit ==
    /\ smi.pc = "loop"
    /\ ~LoopContinues(smi.tokens)
    /\ smi' = [smi EXCEPT !.pc = "done"]
    /\ UNCHANGED notSmi

NextBPE ==
    \/ SmiEnter
    \/ SmiMerge
    \/ SmiBreak
    \/ SmiExit

SpecBPE == InitBPE /\ [][NextBPE]_vars

\* the interpreter keeps executing a call that can take a step
FairSpecBPE == SpecBPE /\ WF_vars(NextBPE)

\* ------------------------------------------------------------------------
\* MoltxTokenizer.encode followed iteration by iteration
\* ------------------------------------------------------------------------
\* most pieces a text handed to encode is made of
MaxPieces == 3

\* the pieces: an atom, a character outside the grammar, the two angle
\* brackets ("<" is outside the grammar, ">" is in it), the opening of a tag
\* that one more word character and ">" complete, and two control tags
Pieces ==
    {<<"C">>, <<"x">>, <<"<">>, <<">">>, <<"<", "C", "l">>, unk, bos}

EncodeInputs ==
    {Join(ps) : ps \in UNION {[1..n -> Pieces] : n \in 0..MaxPieces}}

\* the frame of a call of encode that has not started; `parts` lists what
\* the call has appended so far: each gap handed to the engine and each tag,
\* with the tokens appended for it
EncFrame(s) ==
    [pc |-> "call", smiles |-> s, pos |-> 0, tokens |-> <<>>, parts |-> <<>>]

\* an unfrozen instance is constructed and encode is handed one text
InitEncode ==
    \E cfg \in SmilesConfigs, s \in EncodeInputs :
        LET r == UpdateTokens(<<>>, <<>>, MaxCapacity, FALSE, reserved)
        IN  /\ tokens = r.tokens
            /\ token_idx = r.token_idx
            /\ token_size = MaxCapacity
            /\ freeze = FALSE
            /\ dropout = cfg.dropout
            /\ bpe_codes = cfg.bpe_codes
            /\ op = "init"
            /\ arg = <<>>
            /\ ret = <<>>
            /\ err = "none"
            /\ old = [tokens |-> <<>>, token_idx |-> <<>>, freeze |-> FALSE]
            /\ smi = <<>>
            /\ enc = EncFrame(s)
            /\ thr = <<>>

\* everything but the frame of encode
notEnc == <<tokens, token_idx, token_size, freeze, dropout, bpe_codes,
            op, arg, ret, err, old, smi, thr>>

\* tokens = [], pos = 0
EncEnter ==
    /\ enc.pc = "call"
    /\ enc' = [enc EXCEPT !.pc = "scan"]
    /\ UNCHANGED notEnc

\* one iteration of the while loop: the search from pos found a tag; the
\* gap before it, if any, goes through the engine, then the tag is appended
EncTag ==
    /\ enc.pc = "scan"
    /\ TagSearch(enc.smiles, enc.pos + 1) # 0
    /\ LET start == TagSearch(enc.smiles, enc.pos + 1) - 1
           gap == Slice(enc.smiles, enc.pos + 1, start)
           tag == SubSeq(enc.smiles, start + 1, start + 5)
       IN  \E g \in IF start > enc.pos
                     THEN SmilesCall(gap, bpe_codes, dropout, {})
                     ELSE {<<>>} :
               enc' = [enc EXCEPT
                          !.tokens = enc.tokens \o g \o <<tag>>,
                          !.pos = start + 5,
                          !.parts = enc.parts
                              \o (IF start > enc.pos
                                  THEN <<[kind |-> "gap", text |-> gap, tokens |-> g]>>
                                  ELSE <<>>)
                              \o <<[kind |-> "tag", text |-> tag, tokens |-> <<tag>>]>>]
    /\ UNCHANGED notEnc

\* the search from pos found nothing: the rest of the text, if any, goes
\* through the engine and encode returns
EncTail ==
    /\ enc.pc = "scan"
    /\ TagSearch(enc.smiles, enc.pos + 1) = 0
    /\ LET gap == Slice(enc.smiles, enc.pos + 1, Len(enc.smiles))
       IN  \E g \in IF Len(enc.smiles) > enc.pos
                     THEN SmilesCall(gap, bpe_codes, dropout, {})
                     ELSE {<<>>} :
               enc' = [enc EXCEPT
                          !.pc = "done",
                          !.tokens = enc.tokens \o g,
                          !.parts = enc.parts
                              \o (IF Len(enc.smiles) > enc.pos
                                  THEN <<[kind |-> "gap", text |-> gap, tokens |-> g]>>
                                  ELSE <<>>)]
    /\ UNCHANGED notEnc

NextEncode ==
    \/ EncEnter
    \/ EncTag
    \/ EncTail

SpecEncode == InitEncode /\ [][NextEncode]_vars

\* ------------------------------------------------------------------------
\* Concurrent calls of MoltxTokenizer.__call__ on one instance, each
\* iteration of the registration loop one mutual-exclusion region
\* ------------------------------------------------------------------------
Threads == {"t1", "t2", "t3"}

\* most tokens the instance has room for beyond the reserved ones
MaxNewTokens == 3

\* the texts the threads encode: they share the atom C and the tag <unk>
\* and bring the new tokens C, CC, x and N
ThreadTexts ==
    {<<"C", "C">>, <<"C">> \o unk \o <<"x">>, <<"N", "C">>}

\* `if token not in self._token_idx` to the append, without the membership
\* test
RegisterOne_NoMembershipTest(toks, idx, size, token) ==
    IF Len(toks) >= size
    THEN [tokens |-> toks, token_idx |-> idx, full |-> TRUE]
    ELSE [tokens |-> Append(toks, token),
          token_idx |-> (token :> Len(toks)) @@ idx,
          full |-> FALSE]

\* the body of the for loop of _update_tokens for one token; `full` tells
\* that it returned from _update_tokens
RegisterOne(toks, idx, size, token) ==
    IF token \notin DOMAIN idx
    THEN IF Len(toks) >= size
         THEN [tokens |-> toks, token_idx |-> idx, full |-> TRUE]
         ELSE [tokens |-> Append(toks, token),
               token_idx |-> idx @@ (token :> Len(toks)),
               full |-> FALSE]
    ELSE [tokens |-> toks, token_idx |-> idx, full |-> FALSE]

\* the frame of a call of __call__ that has not started: `toks` is the
\* local list encode returned, `rest` the part of it the loop has not
\* reached
ThrFrame(s) ==
    [pc |-> "call", smiles |-> s, toks |-> <<>>, rest |-> <<>>,
     ret |-> <<>>, err |-> "none"]

\* an unfrozen instance is constructed and every thread is handed a text
InitConc ==
    \E size \in 0..(NumReserved + MaxNewTokens), cfg \in SmilesConfigs,
       texts \in [Threads -> ThreadTexts] :
        LET r == UpdateTokens(<<>>, <<>>, size, FALSE, reserved)
        IN  /\ tokens = r.tokens
            /\ token_idx = r.token_idx
            /\ token_size = size
            /\ freeze = FALSE
            /\ dropout = cfg.dropout
            /\ bpe_codes = cfg.bpe_codes
            /\ op = "init"
            /\ arg = <<>>
            /\ ret = <<>>
            /\ err = "none"
            /\ old = [tokens |-> <<>>, token_idx |-> <<>>, freeze |-> FALSE]
            /\ smi = <<>>
            /\ enc = <<>>
            /\ thr = [t \in Threads |-> ThrFrame(texts[t])]

\* what no thread writes
notConc == <<token_size, freeze, dropout, bpe_codes, op, arg, ret, err, old,
             smi, enc>>

\* tokens = self.encode(smiles), then the freeze test of _update_tokens
ThrEncode(t) ==
    /\ thr[t].pc = "call"
    /\ \E toks \in Encode(thr[t].smiles, bpe_codes, dropout) :
           thr' = [thr EXCEPT ![t].pc = IF freeze THEN "ids" ELSE "update",
                              ![t].toks = toks,
                              ![t].rest = toks]
    /\ UNCHANGED <<tokens, token_idx>>
    /\ UNCHANGED notConc

\* one iteration of the for loop of _update_tokens, executed as one
\* mutual-exclusion region: membership test, capacity test, index write
\* and append
ThrRegister(t) ==
    /\ thr[t].pc = "update"
    /\ thr[t].rest # <<>>
    /\ LET r == RegisterOne(tokens, token_idx, token_size, Head(thr[t].rest))
       IN  /\ tokens' = r.tokens
           /\ token_idx' = r.token_idx
           /\ thr' = IF r.full
                     THEN [thr EXCEPT ![t].pc = "ids"]
                     ELSE [thr EXCEPT ![t].rest = Tail(thr[t].rest)]
    /\ UNCHANGED notConc

\* the for loop of _update_tokens is exhausted
ThrLoopEnd(t) ==
    /\ thr[t].pc = "update"
    /\ thr[t].rest = <<>>
    /\ thr' = [thr EXCEPT ![t].pc = "ids"]
    /\ UNCHANGED <<tokens, token_idx>>
    /\ UNCHANGED notConc

\* unk = self._token_idx[self.unk] and the list of identifiers returned
ThrReturn(t) ==
    /\ thr[t].pc = "ids"
    /\ thr' = IF unk \notin DOMAIN token_idx
              THEN [thr EXCEPT ![t].pc = "done", ![t].err = "KeyError"]
              ELSE [thr EXCEPT ![t].pc = "done",
                               ![t].ret = [k \in 1..Len(thr[t].toks) |->
                                              IdOf(token_idx, thr[t].toks[k]).val]]
    /\ UNCHANGED <<tokens, token_idx>>
    /\ UNCHANGED notConc

NextConc ==
    \/ \E t \in Threads : ThrEncode(t)
    \/ \E t \in Threads : ThrRegister(t)
    \/ \E t \in Threads : ThrLoopEnd(t)
    \/ \E t \in Threads : ThrReturn(t)

SpecConc == InitConc /\ [][NextConc]_vars

\* ------------------------------------------------------------------------
\* Helpers of the properties
\* ------------------------------------------------------------------------
\* the last operation was encodeToIds (__call__ returning identifiers)
EncodedToIds == op = "call" /\ ~arg.tokens_only

\* every token the last encode produced is resident afterwards
AllResident == \A k \in 1..Len(arg.tokens) : arg.tokens[k] \in DOMAIN token_idx

RECURSIVE FirstNew(_, _)
\* the items not in `seen`, each once, in the order of their first occurrence
FirstNew(items, seen) ==
    IF items = <<>> THEN <<>>
    ELSE IF Head(items) \in seen THEN FirstNew(Tail(items), seen)
    ELSE <<Head(items)>> \o FirstNew(Tail(items), seen \cup {Head(items)})

\* what is kept of a gap between control tags: the characters the grammar
\* matches; with `bypass` a gap of one character is kept as it is
GapText(gap, bypass) ==
    IF bypass /\ Len(gap) = 1 THEN gap ELSE Join(FindAll(gap, 1))

RECURSIVE StripFrom(_, _, _)
\* the text from 0-based position pos on, control tags verbatim and every
\* gap reduced to GapText
StripFrom(s, pos, bypass) ==
    LET start == TagSearch(s, pos + 1) - 1
    IN  IF start < 0
        THEN GapText(Slice(s, pos + 1, Len(s)), bypass)
        ELSE GapText(Slice(s, pos + 1, start), bypass)
                 \o SubSeq(s, start + 1, start + 5)
                 \o StripFrom(s, start + 5, bypass)

\* the 0-based positions of `toks` where the pair `bigram` stands and its
\* draw accepted it
Occurrences(toks, bigram, drop, draws) ==
    {i \in 0..(Len(toks) - 2) :
        /\ toks[i + 1] = bigram[1]
        /\ toks[i + 2] = bigram[2]
        /\ Accepted(drop, draws[i + 1])}

RECURSIVE MergedAt(_, _)
\* the occurrence at position i is merged: it is an occurrence and does not
\* start inside the span of the merge just before it
MergedAt(occ, i) == i >= 0 /\ i \in occ /\ ~MergedAt(occ, i - 1)

RECURSIVE Rebuild(_, _, _, _)
\* the tokens from 0-based position k on, every merged occurrence replaced
\* by `merged` and every other token kept
Rebuild(toks, occ, merged, k) ==
    IF k >= Len(toks) THEN <<>>
    ELSE IF MergedAt(occ, k) THEN <<merged>> \o Rebuild(toks, occ, merged, k + 1)
    ELSE IF MergedAt(occ, k - 1) THEN Rebuild(toks, occ, merged, k + 1)
    ELSE <<toks[k + 1]>> \o Rebuild(toks, occ, merged, k + 1)

\* the 0-based positions of `toks` whose pair is in the table and accepted
Candidates(toks, codes, drop, draws) ==
    {i \in 0..(Len(toks) - 2) :
        /\ <<toks[i + 1], toks[i + 2]>> \in DOMAIN codes
        /\ Accepted(drop, draws[i + 1])}

\* the pair at 0-based position i
PairAt(toks, i) == <<toks[i + 1], toks[i + 2]>>

\* the candidate with the smallest (rank, position)
Best(toks, codes, cands) ==
    CHOOSE i \in cands :
        \A j \in cands :
            \/ codes[PairAt(toks, i)] < codes[PairAt(toks, j)]
            \/ codes[PairAt(toks, i)] = codes[PairAt(toks, j)] /\ i <= j

\* the leftmost candidate that holds the same pair as candidate b
Leftmost(toks, cands, b) ==
    CHOOSE i \in cands :
        /\ PairAt(toks, i) = PairAt(toks, b)
        /\ \A j \in cands : PairAt(toks, j) = PairAt(toks, b) => i <= j

RECURSIVE AllMatched(_, _)
\* every character of token t from position i on belongs to a match of the
\* grammar
AllMatched(t, i) ==
    \/ i > Len(t)
    \/ MatchLen(t, i) > 0 /\ AllMatched(t, i + MatchLen(t, i))

\* every token of the list consists of matches of the grammar
NoForeignCharacter(toks) == \A j \in 1..Len(toks) : AllMatched(toks[j], 1)

RECURSIVE Segments(_, _, _)
\* the tags and the non-empty gaps of s in text order, read character by
\* character from position i; `from` is where the current gap began
Segments(s, i, from) ==
    IF i > Len(s)
    THEN IF from <= Len(s)
         THEN <<[kind |-> "gap", text |-> SubSeq(s, from, Len(s))]>>
         ELSE <<>>
    ELSE IF TagAt(s, i)
    THEN (IF from < i
          THEN <<[kind |-> "gap", text |-> SubSeq(s, from, i - 1)]>>
          ELSE <<>>)
             \o <<[kind |-> "tag", text |-> SubSeq(s, i, i + 4)]>>
             \o Segments(s, i + 5, i + 5)
    ELSE Segments(s, i + 1, from)

\* ------------------------------------------------------------------------
\* Properties
\* ------------------------------------------------------------------------

\* C1: in every reachable state the vocabulary holds at most token_size
\* tokens.
C1_SizeWithinCapacity == Len(tokens) <= token_size

\* an encode that registered a token, reached capacity and left a produced
\* token unregistered
C1_Witness ==
    /\ op = "call"
    /\ Len(tokens) > Len(old.tokens)
    /\ Len(tokens) = token_size
    /\ ~AllResident

\* C2: the reserved tokens pad, unk, bos, eos, sep, cls have the identifiers
\* 0..5 in every state of every instance (stated here for the capacities
\* that have room for the six of them).
C2_ReservedAtFixedIds ==
    token_size >= NumReserved =>
        \A k \in 1..NumReserved :
            /\ Len(tokens) >= k
            /\ tokens[k] = reserved[k]
            /\ reserved[k] \in DOMAIN token_idx
            /\ token_idx[reserved[k]] = k - 1

\* C3: idOf never raises: it returns the identifier of a resident token and
\* the identifier of unk for any other token (stated here for the capacities
\* that have room for the reserved tokens).
C3_IdOfNeverRaises ==
    token_size >= NumReserved /\ op = "idOf" =>
        /\ err = "none"
        /\ ret = IF arg \in DOMAIN token_idx
                 THEN token_idx[arg] ELSE token_idx[unk]

\* C4: tokenOf and decodeFromIds raise the out-of-range error whenever an
\* identifier is not one of 0..size-1, and leave the vocabulary unchanged.
C4_OutOfRangeIsFatal ==
    /\ op = "tokenOf" /\ arg \notin 0..(Len(tokens) - 1) => err = "IndexError"
    /\ op = "decode" /\ (\E k \in 1..Len(arg) : arg[k] \notin 0..(Len(tokens) - 1))
           => err = "IndexError"
    /\ op \in {"tokenOf", "decode"} =>
           tokens = old.tokens /\ token_idx = old.token_idx

\* C5: every step keeps every assigned identifier: the token list only grows
\* at its end and no entry of the mapping changes or disappears.
C5_IdentifiersStable ==
    [][/\ Len(tokens) <= Len(tokens')
       /\ \A k \in 1..Len(tokens) : tokens'[k] = tokens[k]
       /\ \A t \in DOMAIN token_idx :
              t \in DOMAIN token_idx' /\ token_idx'[t] = token_idx[t]]_vars

\* a step that appended to a vocabulary that already held tokens
C5_Witness ==
    /\ op \in {"call", "update", "load"}
    /\ Len(old.tokens) > 0
    /\ Len(tokens) > Len(old.tokens)

\* C6: a load that returns normally has appended the loaded tokens that
\* were not resident, once each and in list order, as far as the capacity
\* allows, whether or not the instance is frozen, and leaves the freeze flag
\* as it was.
C6_LoadAppliesWhenFrozen ==
    op = "load" /\ err = "none" =>
        LET new == FirstNew(arg.tokens, DOMAIN old.token_idx)
            room == token_size - Len(old.tokens)
        IN  /\ freeze = old.freeze
            /\ tokens = old.tokens \o Slice(new, 1, room)
            /\ \A k \in (Len(old.tokens) + 1)..Len(tokens) :
                   tokens[k] \in DOMAIN token_idx /\ token_idx[tokens[k]] = k - 1

\* a frozen instance that a load has grown and that is frozen again
C6_Witness ==
    /\ op = "load"
    /\ err = "none"
    /\ old.freeze
    /\ freeze
    /\ Len(tokens) > Len(old.tokens)

\* C7: a load that fails leaves the freeze flag as it was.
C7_FreezeRestoredOnFailure ==
    op = "load" /\ err # "none" => freeze = old.freeze

\* C8: on a frozen instance registerObserved and encodeToIds change neither
\* the token list, nor the mapping, nor the freeze flag, and encodeToIds
\* gives the identifier of unk to every token that is not resident (stated
\* here for the capacities that have room for the reserved tokens).
C8_FrozenIsNoOp ==
    token_size >= NumReserved /\ old.freeze /\ op \in {"call", "update"} =>
        /\ tokens = old.tokens
        /\ token_idx = old.token_idx
        /\ freeze = old.freeze
        /\ EncodedToIds =>
               /\ err = "none"
               /\ \A k \in 1..Len(arg.tokens) :
                      arg.tokens[k] \notin DOMAIN token_idx
                          => ret[k] = token_idx[unk]

\* C9: encodeToIds on an unfrozen vocabulary that is at capacity returns
\* normally; the tokens registered before capacity was reached have their
\* identifiers and every other new token has the identifier of unk (stated
\* here for the capacities that have room for pad and unk).
C9_CapacityIsNotAnError ==
    /\ token_size >= 2
    /\ EncodedToIds
    /\ ~old.freeze
    /\ Len(tokens) = token_size
    /\ ~AllResident
    =>
        /\ err = "none"
        /\ \A k \in 1..Len(arg.tokens) :
               ret[k] = IF arg.tokens[k] \in DOMAIN token_idx
                        THEN token_idx[arg.tokens[k]] ELSE token_idx[unk]

C19_ListAndMappingInverse ==
    /\ \A j, k \in 1..Len(tokens) : tokens[j] = tokens[k] => j = k
    /\ DOMAIN token_idx = {tokens[k] : k \in 1..Len(tokens)}
    /\ \A k \in 1..Len(tokens) : token_idx[tokens[k]] = k - 1

\* an encode that produced a resident token along with tokens it registered
C19_Witness ==
    /\ op = "call"
    /\ Len(tokens) >= Len(old.tokens) + 2
    /\ \E k \in 1..Len(arg.tokens) : arg.tokens[k] \in DOMAIN old.token_idx

\* C12: one merge pass merges every accepted occurrence of the winning pair
\* in one left-to-right scan without overlap: an accepted occurrence is
\* merged iff it does not start inside the span of an earlier merge of the
\* pass, and every other token keeps its place.
C12_OnePassMergesAll ==
    smi.passed =>
        smi.tokens =
            Rebuild(smi.prev,
                    Occurrences(smi.prev, smi.bigram, dropout, smi.draws),
                    smi.bigram[1] \o smi.bigram[2], 0)

\* the pass over [C, C, C] with (C, C) at rank 0 and dropout 0 gave [CC, C]
C12_Witness ==
    /\ smi.passed
    /\ dropout = 0
    /\ bpe_codes = SpeCodes
    /\ smi.prev = << <<"C">>, <<"C">>, <<"C">> >>
    /\ smi.tokens = << <<"C", "C">>, <<"C">> >>

\* C13: the merge loop terminates: every pass that found a candidate left
\* strictly fewer tokens than it started with, and every call returns.
C13_LoopTerminates ==
    /\ [](smi.passed => Len(smi.tokens) < Len(smi.prev))
    /\ <>(smi.pc = "done")

\* a call that returned after passes that merged at least two pairs, under
\* a dropout strictly between 0 and 1
C13_Witness ==
    /\ smi.pc = "done"
    /\ smi.passed
    /\ dropout = 50
    /\ Len(smi.tokens) + 2 <= Len(smi.atoms)

\* C14: at every iteration of the merge loop and at its end the
\* concatenation of the current tokens is the concatenation of the atoms
\* the splitter produced.
C14_CharactersPreserved ==
    smi.split =>
        /\ Join(smi.tokens) = Join(smi.atoms)
        /\ smi.passed => Join(smi.prev) = Join(smi.atoms)

\* a call that returned several tokens, one of them merged
C14_Witness ==
    /\ smi.pc = "done"
    /\ smi.passed
    /\ Len(smi.tokens) >= 2
    /\ Len(smi.tokens) < Len(smi.atoms)

\* C17: for a text of one character the engine returns the text as its one
\* token and does not invoke the splitter, whatever the dropout and the
\* merge table.
C17_SingleCharacterBypass ==
    smi.pc = "done" /\ Len(smi.smiles) = 1 =>
        smi.tokens = <<smi.smiles>> /\ ~smi.split

\* the call on "x", a character outside the grammar, returned with a merge
\* table loaded and dropout 0
C17_Witness ==
    /\ smi.pc = "done"
    /\ smi.smiles = <<"x">>
    /\ smi.tokens = << <<"x">> >>
    /\ bpe_codes = SpeCodes
    /\ dropout = 0

\* C18: the pair a pass merges is the pair of the candidate with the
\* smallest (rank, position) among the candidates the draws accepted: no
\* accepted candidate has a lower rank, and the merge is made at the
\* leftmost accepted occurrence of that pair.
C18_LowestRankWins ==
    smi.passed =>
        LET cands == Candidates(smi.prev, bpe_codes, dropout, smi.draws)
            b == Best(smi.prev, bpe_codes, cands)
            first == Leftmost(smi.prev, cands, b)
        IN  /\ cands # {}
            /\ smi.bigram = PairAt(smi.prev, b)
            /\ \A j \in cands :
                   bpe_codes[smi.bigram] <= bpe_codes[PairAt(smi.prev, j)]
            /\ SubSeq(smi.tokens, 1, first) = SubSeq(smi.prev, 1, first)
            /\ smi.tokens[first + 1] = smi.bigram[1] \o smi.bigram[2]

\* a pass in which a candidate of higher rank stood left of the merged pair
C18_Witness ==
    /\ smi.passed
    /\ \E i \in Candidates(smi.prev, bpe_codes, dropout, smi.draws) :
           /\ bpe_codes[PairAt(smi.prev, i)] > bpe_codes[smi.bigram]
           /\ \A j \in Occurrences(smi.prev, smi.bigram, dropout, smi.draws) :
                  i < j

\* C20: with dropout 0 the engine runs to a fixpoint: for a text of more
\* than one character the returned tokens are one token or hold no adjacent
\* pair that is a key of the merge table.
C20_FixpointWithoutDropout ==
    dropout = 0 /\ smi.pc = "done" /\ Len(smi.smiles) > 1 =>
        \/ Len(smi.tokens) = 1
        \/ \A i \in 1..(Len(smi.tokens) - 1) :
               <<smi.tokens[i], smi.tokens[i + 1]>> \notin DOMAIN bpe_codes

\* a call with dropout 0 that merged and returned more than one token
C20_Witness ==
    /\ dropout = 0
    /\ smi.pc = "done"
    /\ smi.passed
    /\ Len(smi.tokens) >= 2

\* C11 as stated: for every gap between control tags, of any length, no
\* token produced for the gap holds a character outside the grammar.
C11_NoForeignCharacters ==
    \A k \in 1..Len(enc.parts) :
        enc.parts[k].kind = "gap" => NoForeignCharacter(enc.parts[k].tokens)

\* C11 amended: for every gap of two or more characters no token produced
\* for the gap holds a character outside the grammar; a gap of one
\* character is produced as it is, as one token.
C11_NoForeignCharactersInLongGaps ==
    \A k \in 1..Len(enc.parts) :
        enc.parts[k].kind = "gap" =>
            IF Len(enc.parts[k].text) = 1
            THEN enc.parts[k].tokens = <<enc.parts[k].text>>
            ELSE NoForeignCharacter(enc.parts[k].tokens)

\* a call that returned after a gap of two or more characters lost a
\* character outside the grammar and kept a token
C11_Witness ==
    /\ enc.pc = "done"
    /\ \E k \in 1..Len(enc.parts) :
           /\ enc.parts[k].kind = "gap"
           /\ Len(enc.parts[k].text) >= 2
           /\ enc.parts[k].tokens # <<>>
           /\ Join(enc.parts[k].tokens) # enc.parts[k].text

\* C15: encode interleaves tags and gaps in text order: what a returned
\* call appended is, in order, every match of the tag pattern as one token
\* and, for every non-empty gap before, between and after the matches, a
\* segmentation of that gap alone by the engine; an empty gap adds nothing
\* and a text without a match is one gap.
C15_TagsAndGapsInterleaved ==
    enc.pc = "done" =>
        LET seg == Segments(enc.smiles, 1, 1)
        IN  /\ Len(enc.parts) = Len(seg)
            /\ \A k \in 1..Len(seg) :
                   /\ enc.parts[k].kind = seg[k].kind
                   /\ enc.parts[k].text = seg[k].text
                   /\ seg[k].kind = "tag" =>
                          enc.parts[k].tokens = <<seg[k].text>>
                   /\ seg[k].kind = "gap" =>
                          enc.parts[k].tokens
                              \in SmilesCall(seg[k].text, bpe_codes, dropout, {})
            /\ enc.tokens = Join([k \in 1..Len(enc.parts) |-> enc.parts[k].tokens])

\* a returned call on a text with a gap, a tag and a gap, both gaps with
\* tokens
C15_Witness ==
    /\ enc.pc = "done"
    /\ Len(enc.parts) = 3
    /\ enc.parts[1].kind = "gap" /\ enc.parts[1].tokens # <<>>
    /\ enc.parts[2].kind = "tag"
    /\ enc.parts[3].kind = "gap" /\ enc.parts[3].tokens # <<>>

\* C16: with every per-token check-then-append one mutual-exclusion region,
\* under every interleaving of concurrent calls on one unfrozen instance
\* each token has exactly one identifier, no two tokens share one, the
\* vocabulary never exceeds the capacity, and the identifiers a call
\* returned stay the ones of its tokens.
C16_SerializedRegistration ==
    /\ \A j, k \in 1..Len(tokens) : tokens[j] = tokens[k] => j = k
    /\ DOMAIN token_idx = {tokens[k] : k \in 1..Len(tokens)}
    /\ \A k \in 1..Len(tokens) : token_idx[tokens[k]] = k - 1
    /\ Len(tokens) <= token_size
    /\ \A t \in Threads :
           thr[t].pc = "done" /\ thr[t].err = "none" =>
               \A k \in 1..Len(thr[t].toks) :
                   thr[t].ret[k] = IF thr[t].toks[k] \in DOMAIN token_idx
                                   THEN token_idx[thr[t].toks[k]]
                                   ELSE token_idx[unk]

\* two threads are both inside their registration loops, each past its
\* first token, with the same token next, and the vocabulary has grown
C16_Witness ==
    /\ Len(tokens) > NumReserved
    /\ \E t, u \in Threads :
           /\ t # u
           /\ thr[t].pc = "update" /\ thr[u].pc = "update"
           /\ thr[t].rest # <<>> /\ thr[u].rest # <<>>
           /\ Len(thr[t].rest) < Len(thr[t].toks)
           /\ Len(thr[u].rest) < Len(thr[u].toks)
           /\ Head(thr[t].rest) = Head(thr[u].rest)

====
